---- MODULE Spec2Model ----
(***************************************************************************)
(* A model of hosts_manager: the HostsEditor of editor.py (the in-memory   *)
(* line sequence, the hosts file, its .bak backup, and the diff / confirm  *)
(* / backup / write / baseline commit workflow) and the commands of cli.py *)
(* that call it.                                                           *)
(*                                                                         *)
(* A Python str is a sequence of one-character strings; a document is a    *)
(* sequence of such lines; the file on disk is its text, one sequence of   *)
(* characters.  An optional value is <<>> (None) or <<v>>.                 *)
(***************************************************************************)
EXTENDS Integers, Sequences, FiniteSets, TLC

\* Bounds of the model: the lines of the file a command starts from, the lines
\* of the file an interactive session starts from, and the operations of a session.
MaxLines == 3
SessionLines == 2
MaxOps == 2

None == <<>>
Some(v) == <<v>>

(***************************************************************************)
(* Characters and the str methods the editor uses.                         *)
(***************************************************************************)
WS == {" ", "\t", "\n"}
DIGITS == {"0", "1", "2", "3", "4", "5", "6", "7", "8", "9"}
LOWERCASE == {"a", "b", "c", "w", "y", "n"}
UPPERCASE == {"A", "B", "C", "W", "Y", "N"}

ToUpper(c) ==
    CASE c = "a" -> "A" [] c = "b" -> "B" [] c = "c" -> "C"
      [] c = "w" -> "W" [] c = "y" -> "Y" [] c = "n" -> "N"
      [] OTHER -> c

ToLower(c) ==
    CASE c = "A" -> "a" [] c = "B" -> "b" [] c = "C" -> "c"
      [] c = "W" -> "w" [] c = "Y" -> "y" [] c = "N" -> "n"
      [] OTHER -> c

RECURSIVE MapChars(_, _)
MapChars(s, up) ==
    IF s = <<>> THEN <<>>
    ELSE <<IF up THEN ToUpper(Head(s)) ELSE ToLower(Head(s))>> \o MapChars(Tail(s), up)

Upper(s) == MapChars(s, TRUE)
Lower(s) == MapChars(s, FALSE)

\* str.isupper(): at least one cased character, and no lower-case one.
IsUpper(s) ==
    /\ \E i \in 1..Len(s) : s[i] \in UPPERCASE
    /\ \A i \in 1..Len(s) : s[i] \notin LOWERCASE

RECURSIVE LStrip(_, _)
LStrip(s, chars) ==
    IF s # <<>> /\ Head(s) \in chars THEN LStrip(Tail(s), chars) ELSE s

RECURSIVE RStrip(_, _)
RStrip(s, chars) ==
    IF s # <<>> /\ s[Len(s)] \in chars THEN RStrip(SubSeq(s, 1, Len(s) - 1), chars) ELSE s

\* str.strip() and str.strip("#").
Strip(s) == RStrip(LStrip(s, WS), WS)
StripHash(s) == RStrip(LStrip(s, {"#"}), {"#"})

StartsWith(s, p) == Len(p) <= Len(s) /\ SubSeq(s, 1, Len(p)) = p
EndsWith(s, p) == Len(p) <= Len(s) /\ SubSeq(s, Len(s) - Len(p) + 1, Len(s)) = p

\* `p in s` of two strings.
Contains(p, s) ==
    \E i \in 0..(Len(s) - Len(p)) : SubSeq(s, i + 1, i + Len(p)) = p

\* s.split("#")[0]: the text before the first "#".
RECURSIVE SplitHash0(_)
SplitHash0(s) ==
    IF s = <<>> \/ Head(s) = "#" THEN <<>> ELSE <<Head(s)>> \o SplitHash0(Tail(s))

\* re.sub(r"^#\s*", "", line): one leading "#" and all the whitespace after it.
ReSubHash(line) ==
    IF StartsWith(line, <<"#">>) THEN LStrip(Tail(line), WS) ELSE line

\* stripped_line.startswith(f"# {d}") for some digit d.
StartsWithHashDigit(s) ==
    Len(s) >= 3 /\ s[1] = "#" /\ s[2] = " " /\ s[3] \in DIGITS

(***************************************************************************)
(* The file: Path.write_text("\n".join(new_lines) + "\n") and              *)
(* Path.read_text().splitlines().                                          *)
(***************************************************************************)
RECURSIVE JoinNL(_)
JoinNL(ls) ==
    IF ls = <<>> THEN <<>>
    ELSE IF Len(ls) = 1 THEN ls[1]
    ELSE ls[1] \o <<"\n">> \o JoinNL(Tail(ls))

WriteText(ls) == JoinNL(ls) \o <<"\n">>

RECURSIVE SplitLinesAcc(_, _, _)
SplitLinesAcc(text, cur, acc) ==
    IF text = <<>> THEN (IF cur = <<>> THEN acc ELSE Append(acc, cur))
    ELSE IF Head(text) = "\n" THEN SplitLinesAcc(Tail(text), <<>>, Append(acc, cur))
    ELSE SplitLinesAcc(Tail(text), Append(cur, Head(text)), acc)

SplitLines(text) == SplitLinesAcc(text, <<>>, <<>>)

ReadFile(text) == SplitLines(text)

(***************************************************************************)
(* The structural conventions: section headers and site comments.          *)
(***************************************************************************)
\* The header test of list_sections and toggle_section, on a stripped line.
HeaderShape(st) == StartsWith(st, <<"#">>) /\ EndsWith(st, <<"#">>) /\ Len(st) > 2

\* stripped_line.strip("#").strip()
HeaderName(st) == Strip(StripHash(st))

\* stripped_line[1:].split("#")[0].strip()
SiteName(st) == Strip(SplitHash0(Tail(st)))

\* _find_section_index: the 1-based index of the first line whose stripped,
\* lower-cased text is "# <section>" lower-cased; 0 for None.
FindSectionIndex(ls, section) ==
    LET hit == {i \in 1..Len(ls) : Lower(Strip(ls[i])) = Lower(<<"#", " ">> \o section)}
    IN IF hit = {} THEN 0 ELSE CHOOSE i \in hit : \A j \in hit : i <= j

\* list_sections: the (section name, site names) pairs, in document order.
RECURSIVE ListSectionsAcc(_, _, _, _)
ListSectionsAcc(ls, current_section, current_sites, sections) ==
    IF ls = <<>>
    THEN (IF current_section # None
          THEN Append(sections, <<current_section[1], current_sites>>)
          ELSE sections)
    ELSE
      LET st == Strip(Head(ls))
          section_name == HeaderName(st)
          site_name == SiteName(st)
      IN IF HeaderShape(st)
         THEN IF section_name # <<>> /\ IsUpper(section_name)
              THEN ListSectionsAcc(Tail(ls), Some(section_name), <<>>,
                      IF current_section # None
                      THEN Append(sections, <<current_section[1], current_sites>>)
                      ELSE sections)
              ELSE ListSectionsAcc(Tail(ls), current_section, current_sites, sections)
         ELSE IF /\ StartsWith(st, <<"#">>)
                 /\ ~StartsWith(st, <<"#", "#">>)
                 /\ site_name # <<>>
                 /\ site_name[1] \notin DIGITS
                 /\ current_section # None
              THEN ListSectionsAcc(Tail(ls), current_section,
                                   Append(current_sites, site_name), sections)
              ELSE ListSectionsAcc(Tail(ls), current_section, current_sites, sections)

ListSections(ls) == ListSectionsAcc(ls, None, <<>>, <<>>)

(***************************************************************************)
(* The line sequences the mutating operations propose.                     *)
(***************************************************************************)
Truthy(opt) == opt # None /\ opt[1] # <<>>

EntryLine(ip, hostname, comment) ==
    ip \o <<"\t">> \o hostname
       \o (IF Truthy(comment) THEN <<" ", " ", "#", " ">> \o comment[1] ELSE <<>>)

InsertAt(ls, i, x) == SubSeq(ls, 1, i - 1) \o <<x>> \o SubSeq(ls, i, Len(ls))

AddEntryLines(ls, ip, hostname, section, comment) ==
    LET entry == EntryLine(ip, hostname, comment)
    IN IF Truthy(section)
       THEN LET idx == FindSectionIndex(ls, section[1])
            IN IF idx = 0
               THEN ls \o << <<"\n", "#", " ">> \o section[1], entry >>
               ELSE InsertAt(ls, idx + 1, entry)
       ELSE Append(ls, entry)

NotContaining(hostname, l) == ~Contains(hostname, l)

DeleteEntryLines(ls, hostname) ==
    SelectSeq(ls, LAMBDA l : NotContaining(hostname, l))

IsCommented(line) == StartsWith(Strip(line), <<"#">>)

CommentLine(hostname, line) ==
    IF Contains(hostname, line) /\ ~IsCommented(line) THEN <<"#", " ">> \o line ELSE line

UncommentLine(hostname, line) ==
    IF Contains(hostname, line) /\ IsCommented(line) THEN ReSubHash(line) ELSE line

RECURSIVE MapLines(_, _, _)
MapLines(ls, hostname, commenting) ==
    IF ls = <<>> THEN <<>>
    ELSE <<IF commenting THEN CommentLine(hostname, Head(ls))
                         ELSE UncommentLine(hostname, Head(ls))>>
         \o MapLines(Tail(ls), hostname, commenting)

CommentEntryLines(ls, hostname) == MapLines(ls, hostname, TRUE)
UncommentEntryLines(ls, hostname) == MapLines(ls, hostname, FALSE)

\* `updated` of comment_entry / uncomment_entry.
CommentUpdated(ls, hostname) ==
    \E i \in 1..Len(ls) : Contains(hostname, ls[i]) /\ ~IsCommented(ls[i])
UncommentUpdated(ls, hostname) ==
    \E i \in 1..Len(ls) : Contains(hostname, ls[i]) /\ IsCommented(ls[i])

\* search_entries: the 1-based numbers of the lines printed.
SearchMatches(ls, query) == {i \in 1..Len(ls) : Contains(query, ls[i])}

(***************************************************************************)
(* toggle_section.                                                         *)
(***************************************************************************)
\* section_name == section.upper()
SectionNameMatchesBoth(section_name, section) == Upper(section_name) = Upper(section)
SectionNameMatches(section_name, section) == section_name = Upper(section)

\* start_idx: 1-based index of the first matching header; 0 for None.
ToggleStart(ls, section) ==
    LET hit == {i \in 1..Len(ls) :
                   /\ HeaderShape(Strip(ls[i]))
                   /\ SectionNameMatches(HeaderName(Strip(ls[i])), section)}
    IN IF hit = {} THEN 0 ELSE CHOOSE i \in hit : \A j \in hit : i <= j

\* site is None or (current_site and current_site == site)
SiteSelectedAny(site, current_site) == TRUE
SiteSelected(site, current_site) ==
    site = None \/ (Truthy(current_site) /\ current_site = site)

RECURSIVE ToggleWalk(_, _, _, _, _, _)
ToggleWalk(ls, idx, current_site, site, enable, updated) ==
    IF idx > Len(ls) THEN [lines |-> ls, updated |-> updated]
    ELSE
      LET line == ls[idx]
          st == Strip(line)
      IN IF HeaderShape(st) THEN [lines |-> ls, updated |-> updated]
         ELSE IF StartsWith(st, <<"#">>) /\ ~StartsWithHashDigit(st)
         THEN ToggleWalk(ls, idx + 1, Some(SiteName(st)), site, enable, updated)
         ELSE IF st = <<>>
         THEN ToggleWalk(ls, idx + 1, current_site, site, enable, updated)
         ELSE IF SiteSelected(site, current_site) /\ enable /\ StartsWith(st, <<"#">>)
         THEN ToggleWalk([ls EXCEPT ![idx] = ReSubHash(line)], idx + 1,
                         current_site, site, enable, updated + 1)
         ELSE IF SiteSelected(site, current_site) /\ ~enable /\ ~StartsWith(st, <<"#">>)
         THEN ToggleWalk([ls EXCEPT ![idx] = <<"#", " ">> \o line], idx + 1,
                         current_site, site, enable, updated + 1)
         ELSE ToggleWalk(ls, idx + 1, current_site, site, enable, updated)

ToggleLines(ls, section, site, enable) ==
    ToggleWalk(ls, ToggleStart(ls, section) + 1, None, site, enable, 0)

\* What toggle_section returns: 0 when the section is not found; otherwise the
\* function ends without a return statement, and the call evaluates to None.
ToggleReturn(found) == IF ~found THEN Some(0) ELSE None

\* cli.py disable_section / enable_section: `if updated:` prints the count.
CliSummary(updated) == IF updated # None /\ updated[1] # 0 THEN updated ELSE None

(***************************************************************************)
(* _show_diff and the confirmation prompt.                                 *)
(***************************************************************************)
\* difflib.unified_diff yields nothing exactly when the two sequences are equal.
ShowDiff(old_lines, new_lines_) == old_lines # new_lines_

\* new_lines = new_lines or self.lines
EffectiveNewLines(nl, ls) == IF nl = <<>> THEN ls ELSE nl

\* input(...).strip().lower() == "y"
ConfirmedAlways(a) == TRUE
Confirmed(a) == Lower(Strip(a)) = <<"y">>

(***************************************************************************)
(* Inputs.                                                                 *)
(***************************************************************************)
HdrW == <<"#", " ", "W", " ", "#">>
Hdrw == <<"#", " ", "w", " ", "#">>
SiteA == <<"#", " ", "a">>
SiteB == <<"#", " ", "b">>
EntA == <<"1", "\t", "a">>
EntIndA == <<" ", "1", "\t", "a">>
DisA == <<"#", " ", "1", "\t", "a">>
Blank == <<>>

Pool == {HdrW, Hdrw, SiteA, SiteB, EntA, EntIndA, DisA, Blank}
Docs(n) == UNION {[1..k -> Pool] : k \in 0..n}

\* Longer documents: the scenario of two sites in one section, followed by
\* another section, and the same with the entries disabled and a blank line.
ScenarioDocs ==
    { <<HdrW, SiteA, EntA, SiteB, EntA, Hdrw, EntA>>,
      <<HdrW, SiteB, DisA, Blank, SiteA, DisA>> }

\* The text of a .bak file left by an earlier run.
StaleBackup == <<"o", "\n">>

IPs == {<<"1">>}
Hostnames == {<<"a">>, <<"b">>}
SectionNames == {<<"W">>, <<"w">>}
SiteNames == {<<"a">>, <<"b">>}
Comments == {None, Some(<<"c">>)}
Queries == {None, Some(<<>>), Some(<<"a">>)}
\* " Y" is normalised to "y" by strip().lower(); the empty answer is the default N.
Answers == {<<" ", "Y">>, <<"n">>, <<>>}

OpRec(name, ip, host, section, site, enable, comment, query) ==
    [name |-> name, ip |-> ip, host |-> host, section |-> section, site |-> site,
     enable |-> enable, comment |-> comment, query |-> query]

(***************************************************************************)
(* State.                                                                  *)
(***************************************************************************)
VARIABLES
    lines,      \* self.lines, the in-memory baseline
    file,       \* the text of the hosts file on disk
    backup,     \* the text of <path>.bak, None while it does not exist
    pc,         \* idle | confirm | backup | write | baseline | crashed
    new_lines,  \* _write_file's new_lines while a commit is under way
    answer,     \* what the user typed at the prompt of this operation, if asked
    op,         \* the operation under way, or the last one
    pre,        \* lines, file and backup when that operation started
    outcome,    \* how it ended
    ret,        \* what it returned to its caller
    out,        \* what it (or its command) reported
    hist,       \* the host and lines of an applied comment_entry, for the next operation
    nops,       \* operations started
    mode        \* cli: one command per process; interactive: the menu loop

vars == <<lines, file, backup, pc, new_lines, answer, op, pre, outcome, ret, out, hist,
          nops, mode>>

\* HostsEditor.__init__: the file exists and self.lines is read from it.
Start(m, docs) ==
    /\ mode = m
    /\ \E d \in docs : file = (IF d = <<>> THEN <<>> ELSE WriteText(d))
    /\ lines = ReadFile(file)
    /\ backup \in {None, Some(StaleBackup)}
    /\ pc = "idle"
    /\ new_lines = <<>>
    /\ answer = None
    /\ op = OpRec("none", <<>>, <<>>, None, None, FALSE, None, None)
    /\ pre = [lines |-> lines, file |-> file, backup |-> backup]
    /\ outcome = "none"
    /\ ret = None
    /\ out = None
    /\ hist = None
    /\ nops = 0

\* interactive.py: interactive_menu on a fresh editor.
Init == Start("interactive", Docs(SessionLines))

\* cli.py: the group callback builds the editor, then one command runs.
CliInit == Start("cli", Docs(MaxLines) \cup ScenarioDocs)

\* cli.py runs one command; interactive_menu loops until Quit.
OpLimit == IF mode = "cli" THEN 1 ELSE MaxOps

\* A command starts: the editor is idle (one operation at a time).
Begin(o) ==
    /\ pc = "idle"
    /\ nops < OpLimit
    /\ UNCHANGED mode
    /\ nops' = nops + 1
    /\ op' = o
    /\ pre' = [lines |-> lines, file |-> file, backup |-> backup]
    /\ answer' = None
    /\ hist' = IF op.name = "comment" /\ outcome = "applied"
               THEN Some([host |-> op.host, lines |-> pre.lines])
               ELSE None

\* The operation returns without touching anything.
Return(outc, r, o) ==
    /\ pc' = "idle"
    /\ outcome' = outc
    /\ ret' = r
    /\ out' = o
    /\ new_lines' = <<>>
    /\ UNCHANGED <<lines, file, backup>>

\* An uncaught exception ends the process.
Raise(exc) ==
    /\ pc' = "crashed"
    /\ outcome' = exc
    /\ ret' = None
    /\ out' = None
    /\ new_lines' = <<>>
    /\ UNCHANGED <<lines, file, backup>>

\* _write_file up to the prompt: no diff, or the preview is shown and the
\* prompt waits.  r is what the caller returns when _write_file returns at once.
CallWriteFile(nl, r) ==
    LET eff == EffectiveNewLines(nl, lines)
    IN IF ShowDiff(lines, eff)
       THEN /\ pc' = "confirm"
            /\ new_lines' = eff
            /\ outcome' = "pending"
            /\ ret' = None
            /\ out' = None
            /\ UNCHANGED <<lines, file, backup>>
       ELSE Return("nochange", r, CliSummary(r))

AddEntry ==
    \E ip \in IPs, hostname \in Hostnames, comment \in Comments,
       section \in {None} \cup {Some(s) : s \in SectionNames} :
        /\ Begin(OpRec("add", ip, hostname, section, None, FALSE, comment, None))
        /\ CallWriteFile(AddEntryLines(lines, ip, hostname, section, comment), None)

DeleteEntry ==
    \E hostname \in Hostnames :
        /\ Begin(OpRec("delete", <<>>, hostname, None, None, FALSE, None, None))
        /\ LET nl == DeleteEntryLines(lines, hostname)
           IN IF nl = lines
              THEN Return("nomatch", None, None)
              ELSE CallWriteFile(nl, None)

CommentEntry ==
    \E hostname \in Hostnames :
        /\ Begin(OpRec("comment", <<>>, hostname, None, None, FALSE, None, None))
        /\ IF CommentUpdated(lines, hostname)
           THEN CallWriteFile(CommentEntryLines(lines, hostname), None)
           ELSE Return("nomatch", None, None)

UncommentEntry ==
    \E hostname \in Hostnames :
        /\ Begin(OpRec("uncomment", <<>>, hostname, None, None, FALSE, None, None))
        /\ IF UncommentUpdated(lines, hostname)
           THEN CallWriteFile(UncommentEntryLines(lines, hostname), None)
           ELSE Return("nomatch", None, None)

\* cli.py search: --query defaults to None, and `None in line` raises TypeError
\* as soon as there is a line to test.
SearchEntries ==
    \E query \in Queries :
        /\ mode = "interactive" => query # None
        /\ Begin(OpRec("search", <<>>, <<>>, None, None, FALSE, None, query))
        /\ IF query = None /\ lines # <<>>
           THEN Raise("TypeError")
           ELSE Return("read", None,
                       Some(IF query = None THEN {} ELSE SearchMatches(lines, query[1])))

ListSectionsCmd ==
    /\ Begin(OpRec("list_sections", <<>>, <<>>, None, None, FALSE, None, None))
    /\ Return("read", None, Some(ListSections(lines)))

\* cli.py disable_section / enable_section calling toggle_section.
ToggleSection ==
    \E section \in SectionNames, enable \in BOOLEAN,
       site \in {None} \cup {Some(s) : s \in SiteNames} :
        /\ mode = "interactive" => site = None
        /\ Begin(OpRec("toggle", <<>>, <<>>, Some(section), site, enable, None, None))
        /\ IF ToggleStart(lines, section) = 0
           THEN Return("notfound", ToggleReturn(FALSE), CliSummary(ToggleReturn(FALSE)))
           ELSE LET t == ToggleLines(lines, section, site, enable)
                IN IF t.updated # 0
                   THEN CallWriteFile(t.lines, ToggleReturn(TRUE))
                   ELSE Return("noop", ToggleReturn(TRUE),
                               CliSummary(ToggleReturn(TRUE)))

\* What the operation's caller gets once _write_file has returned.
AfterWrite == IF op.name = "toggle" THEN ToggleReturn(TRUE) ELSE None

\* _write_file: the prompt is answered.
Confirm ==
    /\ pc = "confirm"
    /\ \E a \in Answers :
        /\ answer' = Some(a)
        /\ IF Confirmed(a)
           THEN /\ pc' = "backup"
                /\ UNCHANGED <<lines, file, backup, new_lines, outcome, ret, out>>
           ELSE Return("declined", AfterWrite, CliSummary(AfterWrite))
    /\ UNCHANGED <<op, pre, hist, nops, mode>>

\* _write_file: copy2(self.path, backup_path), which may fail and leave the
\* backup as it was or cut short.
Backup ==
    /\ pc = "backup"
    /\ \/ /\ backup' = Some(file)
          /\ pc' = "write"
          /\ UNCHANGED <<outcome, ret, out, new_lines>>
       \/ /\ backup' \in {backup, Some(<<>>)}
          /\ pc' = "crashed"
          /\ outcome' = "OSError"
          /\ ret' = None /\ out' = None
          /\ UNCHANGED new_lines
    /\ UNCHANGED <<lines, file, answer, op, pre, hist, nops, mode>>

\* _write_file: self.path.write_text(...), which may fail before or after the
\* file was truncated.
Write ==
    /\ pc = "write"
    /\ \/ /\ file' = WriteText(new_lines)
          /\ pc' = "baseline"
          /\ UNCHANGED <<outcome, ret, out>>
       \/ /\ file' \in {file, <<>>}
          /\ pc' = "crashed"
          /\ outcome' = "OSError"
          /\ ret' = None /\ out' = None
    /\ UNCHANGED <<lines, backup, new_lines, answer, op, pre, hist, nops, mode>>

\* _write_file: self.lines = new_lines, and the operation returns.
Baseline ==
    /\ pc = "baseline"
    /\ lines' = new_lines
    /\ pc' = "idle"
    /\ outcome' = "applied"
    /\ ret' = AfterWrite
    /\ out' = CliSummary(AfterWrite)
    /\ new_lines' = <<>>
    /\ UNCHANGED <<file, backup, answer, op, pre, hist, nops, mode>>

Next ==
    \/ AddEntry
    \/ DeleteEntry
    \/ CommentEntry
    \/ UncommentEntry
    \/ SearchEntries
    \/ ListSectionsCmd
    \/ ToggleSection
    \/ Confirm
    \/ Backup
    \/ Write
    \/ Baseline

\* An interactive session of at most MaxOps operations.
Spec == Init /\ [][Next]_vars

\* One command of the command line.
CliSpec == CliInit /\ [][Next]_vars

(***************************************************************************)
(* Vocabulary of the properties: the section and site conventions as       *)
(* list_sections recognises them, and the parts of an operation's record.  *)
(***************************************************************************)
IsSectionHeader(line) ==
    /\ HeaderShape(Strip(line))
    /\ HeaderName(Strip(line)) # <<>>
    /\ IsUpper(HeaderName(Strip(line)))

\* A header of the section called `name`.
SectionHeaderOf(line, name) ==
    IsSectionHeader(line) /\ HeaderName(Strip(line)) = name

IsSiteComment(line) ==
    LET st == Strip(line)
    IN /\ ~HeaderShape(st)
       /\ StartsWith(st, <<"#">>)
       /\ ~StartsWith(st, <<"#", "#">>)
       /\ SiteName(st) # <<>>
       /\ SiteName(st)[1] \notin DIGITS

IsBlank(line) == Strip(line) = <<>>

Min(S) == CHOOSE x \in S : \A y \in S : x <= y
Max(S) == CHOOSE x \in S : \A y \in S : x >= y

\* The header line of the section a toggle request for `section` means (0:
\* none), whether line i lies in its block, and the site line i falls under.
SectionStart(doc, section) ==
    LET hs == {i \in 1..Len(doc) : SectionHeaderOf(doc[i], Upper(section))}
    IN IF hs = {} THEN 0 ELSE Min(hs)

InSection(doc, i, section) ==
    LET h == SectionStart(doc, section)
    IN h # 0 /\ h < i /\ \A j \in (h + 1)..i : ~IsSectionHeader(doc[j])

SiteOf(doc, i, section) ==
    LET h == SectionStart(doc, section)
        cs == {j \in (h + 1)..(i - 1) : IsSiteComment(doc[j])}
    IN IF cs = {} THEN None ELSE Some(SiteName(Strip(doc[Max(cs)])))

UnderOtherSite(doc, i, section, site) ==
    /\ InSection(doc, i, section)
    /\ ~IsSiteComment(doc[i])
    /\ SiteOf(doc, i, section) # None
    /\ SiteOf(doc, i, section) # Some(site)

Finished(name) == pc = "idle" /\ op.name = name
Applied(name) == Finished(name) /\ outcome = "applied"

\* The answers that confirm.
PositiveAnswers == {<<"y">>, <<"Y">>, <<" ", "Y">>, <<" ", "y">>}

\* The line sequence an operation proposes (while its commit is under way) or
\* has left in memory.
Proposed == IF pc \in {"confirm", "backup", "write", "baseline"} THEN new_lines ELSE lines

(***************************************************************************)
(* C1.  The commit workflow's side effects come only in the order diff,    *)
(* confirmation, backup, overwrite, baseline: the prompt is answered only  *)
(* after a non-empty diff; the backup changes only after a non-empty diff  *)
(* and a positive answer, while file and baseline are still untouched; the *)
(* file changes only when the backup holds its pre-change content; the     *)
(* baseline changes only after the file holds the new sequence.  When the  *)
(* diff is empty or the user declines, baseline, file and backup are       *)
(* unchanged; when the backup or write step fails, the baseline is.        *)
(***************************************************************************)
C1_CommitOrder ==
    /\ [][ /\ (answer' # answer /\ answer' # None) =>
                (pc = "confirm" /\ new_lines # lines /\ file = pre.file
                                /\ backup = pre.backup /\ lines = pre.lines)
           /\ backup' # backup =>
                (/\ answer # None /\ answer[1] \in PositiveAnswers
                 /\ new_lines # lines
                 /\ file = pre.file /\ file' = file
                 /\ lines = pre.lines /\ lines' = lines)
           /\ file' # file =>
                (/\ backup = Some(pre.file) /\ file = pre.file /\ backup' = backup
                 /\ answer # None /\ answer[1] \in PositiveAnswers
                 /\ lines = pre.lines /\ lines' = lines)
           /\ lines' # lines =>
                (/\ file = WriteText(lines') /\ file' = file
                 /\ backup = Some(pre.file) /\ backup' = backup
                 /\ lines = pre.lines /\ lines' = new_lines)
         ]_vars
    /\ [](outcome \in {"nochange", "declined"} =>
            (lines = pre.lines /\ file = pre.file /\ backup = pre.backup))
    /\ [](outcome = "OSError" => lines = pre.lines)

C1_Witness ==
    /\ pc = "idle" /\ outcome = "applied"
    /\ lines # pre.lines
    /\ pre.backup = Some(StaleBackup)
    /\ backup = Some(pre.file)
    /\ file = WriteText(lines)

(***************************************************************************)
(* C2.  A delete_entry(h) that is not declined, on a document in which h   *)
(* occurs, leaves exactly the lines not containing h, in order, in memory  *)
(* and on disk, also when every line contains h.                           *)
(***************************************************************************)
C2_DeleteRemovesAll ==
    (/\ Finished("delete") /\ outcome # "declined"
     /\ \E i \in 1..Len(pre.lines) : Contains(op.host, pre.lines[i]))
    => LET kept == SelectSeq(pre.lines, LAMBDA l : ~Contains(op.host, l))
       IN /\ lines = kept
          /\ ReadFile(file) = kept
          /\ \A i \in 1..Len(lines) : ~Contains(op.host, lines[i])

(***************************************************************************)
(* C3.  A confirmed add_entry into a section S whose header '# S #' the    *)
(* document contains inserts the entry right after that header and changes *)
(* nothing else.                                                           *)
(***************************************************************************)
C3_AddAfterHeader ==
    (/\ Applied("add") /\ op.section # None
     /\ \E i \in 1..Len(pre.lines) : SectionHeaderOf(pre.lines[i], op.section[1]))
    => \E i \in 1..Len(pre.lines) :
          /\ SectionHeaderOf(pre.lines[i], op.section[1])
          /\ lines = InsertAt(pre.lines, i + 1, EntryLine(op.ip, op.host, op.comment))

(***************************************************************************)
(* C4.  A confirmed add_entry into a section S (an upper-case name) the    *)
(* document does not contain keeps the previous lines and appends one      *)
(* block: the document then has exactly one header of S, as list_sections  *)
(* recognises it, and the only non-blank line after it is the new entry.   *)
(***************************************************************************)
C4_AddCreatesSection ==
    (/\ Applied("add") /\ op.section # None /\ IsUpper(op.section[1])
     /\ \A i \in 1..Len(pre.lines) : ~SectionHeaderOf(pre.lines[i], op.section[1]))
    => LET hs == {k \in 1..Len(lines) : SectionHeaderOf(lines[k], op.section[1])}
       IN /\ Len(lines) >= Len(pre.lines)
          /\ SubSeq(lines, 1, Len(pre.lines)) = pre.lines
          /\ Cardinality(hs) = 1
          /\ Min(hs) > Len(pre.lines)
          /\ SelectSeq(SubSeq(lines, Min(hs) + 1, Len(lines)), LAMBDA l : ~IsBlank(l))
                = <<EntryLine(op.ip, op.host, op.comment)>>

(***************************************************************************)
(* C5.  Whenever no operation is under way, the in-memory line sequence is *)
(* the one reloading the file yields.                                      *)
(***************************************************************************)
C5_MemoryEqualsReload == pc = "idle" => lines = ReadFile(file)

(***************************************************************************)
(* C6.  A confirmed uncomment_entry(h) right after a confirmed             *)
(* comment_entry(h) gives back, character for character, every line that   *)
(* was enabled and contained h, indented or not.                           *)
(***************************************************************************)
C6_DisableEnableInverse ==
    (/\ Applied("uncomment") /\ hist # None /\ hist[1].host = op.host)
    => \A i \in 1..Len(hist[1].lines) :
          (/\ Contains(op.host, hist[1].lines[i])
           /\ ~StartsWith(Strip(hist[1].lines[i]), <<"#">>))
          => (i <= Len(lines) /\ lines[i] = hist[1].lines[i])

(***************************************************************************)
(* C7.  toggle_section(S, site=X) leaves unchanged every line under        *)
(* another site of S, every line outside S, every site comment and every   *)
(* blank line, in what it proposes and in what it leaves in memory.        *)
(***************************************************************************)
C7_SiteScoping ==
    (op.name = "toggle" /\ op.site # None)
    => /\ Len(Proposed) = Len(pre.lines)
       /\ \A i \in 1..Len(pre.lines) :
            (\/ ~InSection(pre.lines, i, op.section[1])
             \/ IsSiteComment(pre.lines[i])
             \/ IsBlank(pre.lines[i])
             \/ UnderOtherSite(pre.lines, i, op.section[1], op.site[1]))
            => Proposed[i] = pre.lines[i]

C7_Witness ==
    /\ Applied("toggle") /\ op.site # None
    /\ lines # pre.lines
    /\ \E i \in 1..Len(pre.lines) :
          /\ UnderOtherSite(pre.lines, i, op.section[1], op.site[1])
          /\ ~IsBlank(pre.lines[i])
          /\ lines[i] = pre.lines[i]
    /\ \E i \in 1..Len(pre.lines) :
          /\ InSection(pre.lines, i, op.section[1])
          /\ SiteOf(pre.lines, i, op.section[1]) = op.site
          /\ lines[i] # pre.lines[i]

(***************************************************************************)
(* C8.  toggle_section returns the number of lines it toggled, 0 when the  *)
(* section is not found or nothing needed toggling and k when k >= 1 lines *)
(* were toggled, and the command reports that k.                           *)
(***************************************************************************)
C8_ToggleReturnsCount ==
    Finished("toggle") =>
       LET k == Cardinality({i \in 1..Len(pre.lines) : lines[i] # pre.lines[i]})
       IN /\ outcome \in {"notfound", "noop"} => ret = Some(0)
          /\ outcome = "applied" => (k >= 1 /\ ret = Some(k) /\ out = Some(k))

(***************************************************************************)
(* C9, as claimed.  A header '# N #' is located by a request for R         *)
(* whenever the upper-cased N equals the upper-cased R.                    *)
(***************************************************************************)
C9_BothDirections ==
    (/\ Finished("toggle")
     /\ \E i \in 1..Len(pre.lines) :
          /\ HeaderShape(Strip(pre.lines[i]))
          /\ Upper(HeaderName(Strip(pre.lines[i]))) = Upper(op.section[1]))
    => outcome # "notfound"

(***************************************************************************)
(* C9, amended.  Only the request is normalised: a header '# N #' is       *)
(* located by a request for R exactly when N itself equals the upper-cased *)
(* R, whatever the letter case of R.                                       *)
(***************************************************************************)
C9_RequestNormalized ==
    Finished("toggle") =>
       ((outcome # "notfound") <=>
           \E i \in 1..Len(pre.lines) :
               /\ HeaderShape(Strip(pre.lines[i]))
               /\ HeaderName(Strip(pre.lines[i])) = Upper(op.section[1]))

C9_Witness ==
    /\ Applied("toggle")
    /\ op.section = Some(<<"w">>)
    /\ \E i \in 1..Len(pre.lines) : pre.lines[i] = HdrW
    /\ \E i \in 1..Len(pre.lines) : pre.lines[i] = Hdrw

(***************************************************************************)
(* C10.  search_entries ends normally for every document and every query,  *)
(* the absent one included, and leaves memory and file unchanged.          *)
(***************************************************************************)
C10_SearchNeverFails ==
    op.name = "search" =>
       (/\ pc = "idle" /\ outcome = "read"
        /\ lines = pre.lines /\ file = pre.file)
====
